---------------------------- MODULE Spec2Model ----------------------------
(***************************************************************************)
(* A model of miratope-core/src/conc/faceting.rs: the faceting search of   *)
(* Concrete::faceting and of its recursive helper faceting_subdim.         *)
(*                                                                         *)
(* Conventions.                                                            *)
(*  - Rust vectors are TLA+ sequences; the VALUES stored in them (vertex   *)
(*    indices, orbit indices, stack frames) keep the source's 0-based      *)
(*    numbering, and At(s, i) reads s[i] of the source.                    *)
(*  - An Element is modelled by its subelement list (Element.subs); the    *)
(*    superelement lists are always built empty by this file.              *)
(*  - Points have integer coordinates. A norm is compared through its      *)
(*    square, so an edge length is carried as its square, and the fixed    *)
(*    epsilon of the float comparisons is exact equality on integers.      *)
(*  - Subspace::flatten is an isometry onto the flat's own frame; the      *)
(*    model keeps ambient coordinates and measures a flat's dimension      *)
(*    against the rank of the call instead.                                *)
(***************************************************************************)
EXTENDS Integers, Sequences, FiniteSets, TLC

VARIABLES
    pc,                 \* position of the call
    rank,               \* self.rank()
    vertices,           \* self.vertices
    vertex_map,         \* the permutation table after the match on GroupEnum
    edge_length,        \* Option<f64>, as the squared length, or None
    noble,              \* Option<usize>
    irc,                \* bool
    overflow_checks,    \* whether the build panics on integer overflow
    vertex_orbits,
    pair_orbits,
    hyperplanes_vertices,
    possible_facets,
    possible_facets_global,
    ff_counts,
    ridges,
    ridge_idx_orbits,
    ridge_counts,
    f_counts,
    facets,             \* the search stack
    evaluated,          \* the stack evaluated last (empty before the first)
    accepted,           \* the stacks classified valid so far, in order
    valid,              \* class of the last evaluated stack (0, 1, 2), -1 before
    cover,              \* the coverage vector of the last evaluated stack
    exact,              \* whether every quotient of the last evaluation was exact
    evals,              \* number of stacks evaluated so far
    output,             \* the facetings found
    sub_result,         \* what faceting_subdim returned (specification SpecMap)
    new_vertices,       \* the vertices added to a pair (specification SpecOdometer)
    update_pos,         \* the position the odometer increments next
    tested              \* the tuples loop 'c was entered with, in order

vars == << pc, rank, vertices, vertex_map, edge_length, noble, irc,
           overflow_checks, vertex_orbits, pair_orbits, hyperplanes_vertices,
           possible_facets, possible_facets_global, ff_counts, ridges,
           ridge_idx_orbits, ridge_counts, f_counts, facets, evaluated,
           accepted, valid, cover, exact, evals, output, sub_result,
           new_vertices, update_pos, tested >>

\* Option<T>: None, or Some(x).
None == << >>

Some(x) == << x >>

(***************************************************************************)
(* Bounds of the model.                                                    *)
(***************************************************************************)
\* Largest facet budget passed as noble = Some(m).
MaxNoble == 2
\* Rows an explicit VertexMap table holds after its identity row (Spec).
MaxExtraRows == 2
\* Largest vertex count of the tables of SpecMap.
MaxN == 3
\* Most rows of an arbitrary table of SpecMap, its identity row included.
MaxRows == 3
\* Most generators of a group table of SpecMap.
MaxGenerators == 2

\* Most hyperplane orbits of a pool of candidate facets of SpecPool.
MaxOrbits == 3
\* Most candidate facets of one hyperplane orbit of a pool of SpecPool.
MaxTypes == 2

\* Largest rank of a call of SpecOdometer.
MaxRank == 6
\* Largest vertex count of a call of SpecOdometer.
MaxVerts == 7

\* The search loop of a sub-faceting is followed for 2^MaxSubDoublings
\* iterations; a search not over by then is reported like a panic.
MaxSubDoublings == 7

(***************************************************************************)
(* Vectors and sequences.                                                  *)
(***************************************************************************)
At(s, i) == s[i + 1]

Range(s) == { s[i] : i \in 1..Len(s) }

\* usize arithmetic of a release build: a - b wraps.  The width is scaled down
\* from 64 bits to 16 (the model checker's integers have 32): a wrapped value
\* still exceeds every length and index of the model.
USizeModulus == 65536

WrappingSub(a, b) == (a - b + USizeModulus) % USizeModulus

\* Lexicographic order of Vec<usize>, the order of sort_unstable on lists.
RECURSIVE LexLess(_, _)
LexLess(a, b) ==
    IF a = << >> THEN b # << >>
    ELSE IF b = << >> THEN FALSE
    ELSE IF Head(a) # Head(b) THEN Head(a) < Head(b)
    ELSE LexLess(Tail(a), Tail(b))

\* sort_unstable on a list of distinct numbers, given as their set.
RECURSIVE SortSet(_)
SortSet(S) ==
    IF S = {} THEN << >>
    ELSE LET m == CHOOSE x \in S : \A y \in S : x <= y
         IN  << m >> \o SortSet(S \ {m})

\* sort_unstable on a list of numbers (duplicates kept).
SortNums(s) == SortSeq(s, LAMBDA a, b : a < b)

\* A set of lists in lexicographic order.
RECURSIVE SortLists(_)
SortLists(S) ==
    IF S = {} THEN << >>
    ELSE LET m == CHOOSE x \in S : \A y \in S : x = y \/ LexLess(x, y)
         IN  << m >> \o SortLists(S \ {m})

\* row[v] for every v of a list.
MapThrough(row, list) == [ i \in 1..Len(list) |-> At(row, list[i]) ]

\* Always TRUE.  A loop that tests it on what it has accumulated so far has
\* that value computed before its next iteration begins, and not in one
\* nested chain when the loop is left.
Computed(x) == x = x

(***************************************************************************)
(* Permutation tables.                                                     *)
(***************************************************************************)
Identity(n) == [ i \in 1..n |-> i - 1 ]

Perms(n) == { p \in [1..n -> 0..(n - 1)] : \A i, j \in 1..n : p[i] = p[j] => i = j }

Compose(p, q) == [ i \in 1..Len(p) |-> At(p, q[i]) ]

IsClosed(vm) == \A p, q \in Range(vm) : Compose(p, q) \in Range(vm)

RECURSIVE Closure(_)
Closure(S) ==
    LET T == S \cup { Compose(p, q) : p, q \in S }
    IN  IF T = S THEN S ELSE Closure(T)

\* The rows of a group, identity first (it is the least row).
GroupTable(S) == SortLists(S)

(***************************************************************************)
(* Geometry on integer points.                                             *)
(***************************************************************************)
Sub(p, q) == [ i \in 1..Len(p) |-> p[i] - q[i] ]

RECURSIVE Dot(_, _)
Dot(p, q) == IF p = << >> THEN 0 ELSE Head(p) * Head(q) + Dot(Tail(p), Tail(q))

\* The square of (p - q).norm().
DistSq(p, q) == Dot(Sub(p, q), Sub(p, q))

\* Determinant by expansion along the first row.
RECURSIVE Det(_)
Det(m) ==
    IF Len(m) = 0 THEN 1
    ELSE IF Len(m) = 1 THEN m[1][1]
    ELSE LET n == Len(m)
             Minor(j) == [ r \in 1..(n - 1) |->
                           [ c \in 1..(n - 1) |-> m[r + 1][IF c < j THEN c ELSE c + 1] ] ]
             RECURSIVE Expand(_)
             Expand(j) == IF j > n THEN 0
                          ELSE (IF j % 2 = 1 THEN 1 ELSE -1) * m[1][j] * Det(Minor(j))
                               + Expand(j + 1)
         IN  Expand(1)

\* Gram determinant of the vectors pts[2] - pts[1], ..., pts[k] - pts[1]:
\* non-zero exactly when the points are affinely independent.
Gram(pts) ==
    LET k == Len(pts) - 1
        d(i) == Sub(pts[i + 1], pts[1])
    IN  Det([ i \in 1..k |-> [ j \in 1..k |-> Dot(d(i), d(j)) ] ])

\* Subspace::from_points(pts).is_hyperplane() inside a call of rank r, whose
\* points span r - 1 dimensions: the flat spanned has r - 2 dimensions.  The
\* callers pass r - 1 points.
IsHyperplane(pts, r) == Len(pts) = r - 1 /\ Gram(pts) # 0

\* hyperplane.distance(p) < EPS for the flat through the independent points pts.
OnFlat(pts, p) == Gram(Append(pts, p)) = 0

(***************************************************************************)
(* Orbit decomposer: vertex orbits.                                        *)
(***************************************************************************)
\* Mutant of MarkVertex: the vertex is never marked as checked.
MarkVertex_forget(checked, c) == checked

\* checked_vertices[c] = true
MarkVertex(checked, c) == checked \cup {c}

\* The loop over the rows for one unchecked vertex v.
RECURSIVE VertexOrbitRows(_, _, _, _, _)
VertexOrbitRows(vm, v, i, checked, new_orbit) ==
    IF i > Len(vm) THEN [ checked |-> checked, orbit |-> new_orbit ]
    ELSE LET c == At(vm[i], v)
         IN  IF c \notin checked
             THEN VertexOrbitRows(vm, v, i + 1, MarkVertex(checked, c), Append(new_orbit, c))
             ELSE VertexOrbitRows(vm, v, i + 1, checked, new_orbit)

\* The loop over the vertices 0..n-1.
RECURSIVE VertexOrbitLoop(_, _, _, _, _)
VertexOrbitLoop(n, vm, v, checked, orbits) ==
    IF v >= n THEN orbits
    ELSE IF v \notin checked
         THEN LET r == VertexOrbitRows(vm, v, 1, checked, << >>)
              IN  VertexOrbitLoop(n, vm, v + 1, r.checked, Append(orbits, r.orbit))
         ELSE VertexOrbitLoop(n, vm, v + 1, checked, orbits)

VertexOrbits(n, vm) == VertexOrbitLoop(n, vm, 0, {}, << >>)

(***************************************************************************)
(* Orbit decomposer: pair orbits.                                          *)
(***************************************************************************)
\* Mutant of EdgeLengthOk: the edge-length filter is not applied.
EdgeLengthOk_off(points, e_l, a, b) == TRUE

\* ((points[a] - points[b]).norm() - e_l).abs() <= EPS, or no edge length set.
EdgeLengthOk(points, e_l, a, b) ==
    e_l = None \/ DistSq(At(points, a), At(points, b)) = e_l[1]

\* Mutant of MarkPair: only the ordered pair is marked.
MarkPair_oneway(checked, c1, c2) == checked \cup { << c1, c2 >> }

\* checked[c1][c2] = true; checked[c2][c1] = true
MarkPair(checked, c1, c2) == checked \cup { << c1, c2 >>, << c2, c1 >> }

\* The loop over the rows for one pair (rep, vertex).
RECURSIVE PairOrbitRows(_, _, _, _, _, _)
PairOrbitRows(vm, rep, vertex, i, checked, new_orbit) ==
    IF i > Len(vm) THEN [ checked |-> checked, orbit |-> new_orbit ]
    ELSE LET c1 == At(vm[i], rep)
             c2 == At(vm[i], vertex)
         IN  IF << c1, c2 >> \notin checked
             THEN PairOrbitRows(vm, rep, vertex, i + 1, MarkPair(checked, c1, c2),
                                Append(new_orbit, << c1, c2 >>))
             ELSE PairOrbitRows(vm, rep, vertex, i + 1, checked, new_orbit)

\* The loop over the vertices for one representative.
RECURSIVE PairOrbitVertices(_, _, _, _, _, _, _)
PairOrbitVertices(points, vm, e_l, rep, vertex, checked, orbits) ==
    IF vertex >= Len(points) THEN [ checked |-> checked, orbits |-> orbits ]
    ELSE IF vertex # rep /\ << rep, vertex >> \notin checked
                         /\ EdgeLengthOk(points, e_l, vertex, rep)
         THEN LET r == PairOrbitRows(vm, rep, vertex, 1, checked, << >>)
              IN  PairOrbitVertices(points, vm, e_l, rep, vertex + 1, r.checked,
                                    Append(orbits, r.orbit))
         ELSE PairOrbitVertices(points, vm, e_l, rep, vertex + 1, checked, orbits)

\* The loop over the vertex orbits.
RECURSIVE PairOrbitLoop(_, _, _, _, _, _, _)
PairOrbitLoop(points, vm, e_l, v_orbits, k, checked, orbits) ==
    IF k > Len(v_orbits) \/ ~Computed(orbits) THEN orbits
    ELSE LET rep == At(v_orbits[k], 0)
             r == PairOrbitVertices(points, vm, e_l, rep, 0, checked, orbits)
         IN  PairOrbitLoop(points, vm, e_l, v_orbits, k + 1, r.checked, r.orbits)

PairOrbits(points, vm, e_l, v_orbits) ==
    PairOrbitLoop(points, vm, e_l, v_orbits, 1, {}, << >>)

(***************************************************************************)
(* Hyperplane enumerator.  A context c carries what the loops read:        *)
(* points, vm (the vertex map), e_l, rank, top (TRUE in Concrete::faceting,*)
(* FALSE in faceting_subdim), irc and oc (overflow checks of the build).   *)
(***************************************************************************)
Ctx(points, vm, e_l, r, irc_, top, oc) ==
    [ points |-> points, vm |-> vm, e_l |-> e_l, rank |-> r, irc |-> irc_,
      top |-> top, oc |-> oc ]

\* for i in update+1..rank-3 { new_vertices[i] = new_vertices[i-1]+1 }
RECURSIVE ResetAfter(_, _)
ResetAfter(nv, i) ==
    IF i >= Len(nv) THEN nv
    ELSE ResetAfter([ nv EXCEPT ![i + 1] = At(nv, i - 1) + 1 ], i + 1)

\* total_vert_count + update - rank + 3
OdometerLimit(n, update, r) == (n + update - r + 3 + USizeModulus) % USizeModulus

\* The loop "Increment new_vertices": the next tuple, or the end of loop 'b,
\* or a panic (an index out of range, an overflow in a checking build).
RECURSIVE Increment(_, _, _, _, _)
Increment(nv, update, n, r, oc) ==
    IF update >= Len(nv) THEN [ status |-> "panic", nv |-> nv, update |-> update ]
    ELSE IF n + update < r /\ oc THEN [ status |-> "panic", nv |-> nv, update |-> update ]
    ELSE IF At(nv, update) = OdometerLimit(n, update, r)
         THEN IF update < 1 THEN [ status |-> "exit", nv |-> nv, update |-> update ]
              ELSE Increment(nv, update - 1, n, r, oc)
         ELSE IF r < 4 /\ oc THEN [ status |-> "panic", nv |-> nv, update |-> update ]
              ELSE [ status |-> "next",
                     nv     |-> ResetAfter([ nv EXCEPT ![update + 1] = @ + 1 ], update + 1),
                     update |-> WrappingSub(r, 4) ]

\* The vertices at distance < EPS of the flat through pts, sorted.
HyperplaneVertices(points, pts) ==
    SortSet({ idx \in 0..(Len(points) - 1) : OnFlat(pts, At(points, idx)) })

\* Mutant of ExpandHyperplane: every image is pushed, seen before or not.
RECURSIVE ExpandHyperplane_all(_, _, _, _, _)
ExpandHyperplane_all(vm, hyperplane_vertices, i, checked, new_orbit_vertices) ==
    IF i > Len(vm) THEN [ checked |-> checked, orbit |-> new_orbit_vertices ]
    ELSE ExpandHyperplane_all(vm, hyperplane_vertices, i + 1,
                              checked \cup { SortNums(MapThrough(vm[i], hyperplane_vertices)) },
                              Append(new_orbit_vertices, MapThrough(vm[i], hyperplane_vertices)))

\* The loop over the rows that expands a new hyperplane to its orbit.
RECURSIVE ExpandHyperplane(_, _, _, _, _)
ExpandHyperplane(vm, hyperplane_vertices, i, checked, new_orbit_vertices) ==
    IF i > Len(vm) THEN [ checked |-> checked, orbit |-> new_orbit_vertices ]
    ELSE LET new_hp_v == MapThrough(vm[i], hyperplane_vertices)
             sorted == SortNums(new_hp_v)
         IN  IF sorted \notin checked
             THEN ExpandHyperplane(vm, hyperplane_vertices, i + 1, checked \cup {sorted},
                                   Append(new_orbit_vertices, new_hp_v))
             ELSE ExpandHyperplane(vm, hyperplane_vertices, i + 1, checked, new_orbit_vertices)

\* Whether every added vertex is at the edge length from the pair's first vertex.
TupleEdgeOk(c, rep, nv) ==
    \A i \in 1..Len(nv) : EdgeLengthOk(c.points, c.e_l, nv[i], At(rep, 0))

\* Loop 'c for one tuple: st = [checked, hv]; stop is the "break 'b" of
\* faceting_subdim at rank <= 3.
TryTuple(c, rep, nv, st) ==
    IF ~TupleEdgeOk(c, rep, nv) THEN [ st |-> st, stop |-> FALSE ]
    ELSE LET tuple == rep \o nv
             pts == [ i \in 1..Len(tuple) |-> At(c.points, tuple[i]) ]
         IN  IF IsHyperplane(pts, c.rank)
             THEN LET hyperplane_vertices == HyperplaneVertices(c.points, pts)
                      e == ExpandHyperplane(c.vm, hyperplane_vertices, 1, st.checked, << >>)
                  IN  [ st   |-> IF hyperplane_vertices \notin st.checked
                                 THEN [ checked |-> e.checked, hv |-> Append(st.hv, e.orbit) ]
                                 ELSE st,
                        stop |-> (~c.top /\ c.rank <= 3) ]
             ELSE [ st |-> st, stop |-> FALSE ]

\* Loop 'b for one pair orbit.
RECURSIVE TupleLoop(_, _, _, _, _)
TupleLoop(c, rep, nv, update, st) ==
    LET t == TryTuple(c, rep, nv, st)
        inc == Increment(nv, update, Len(c.points), c.rank, c.oc)
    IN  IF t.stop THEN [ panic |-> FALSE, st |-> t.st ]
        ELSE IF inc.status = "panic" THEN [ panic |-> TRUE, st |-> t.st ]
        ELSE IF inc.status = "exit" THEN [ panic |-> FALSE, st |-> t.st ]
        ELSE TupleLoop(c, rep, inc.nv, inc.update, t.st)

\* let mut update = rank-4 (Concrete::faceting), guarded by rank > 3 in
\* faceting_subdim.
InitialUpdate(c) ==
    IF c.top THEN WrappingSub(c.rank, 4)
    ELSE IF c.rank > 3 THEN c.rank - 4 ELSE 0

\* The loop over the pair orbits; an empty pair orbit has no pair_orbit[0].
RECURSIVE HyperplaneLoop(_, _, _, _)
HyperplaneLoop(c, p_orbits, k, st) ==
    IF k > Len(p_orbits) THEN [ panic |-> FALSE, hv |-> st.hv ]
    ELSE IF p_orbits[k] = << >> THEN [ panic |-> TRUE, hv |-> st.hv ]
    ELSE IF c.top /\ c.rank < 4 /\ c.oc THEN [ panic |-> TRUE, hv |-> st.hv ]
    ELSE LET rep == At(p_orbits[k], 0)
             r == TupleLoop(c, rep, [ i \in 1..(c.rank - 3) |-> 0 ], InitialUpdate(c), st)
         IN  IF r.panic THEN [ panic |-> TRUE, hv |-> r.st.hv ]
             ELSE HyperplaneLoop(c, p_orbits, k + 1, r.st)

\* hyperplanes_vertices: for every hyperplane orbit, the vertex lists of its
\* members (hyperplane_orbits holds the Subspace of each, in the same order).
HyperplaneOrbits(c, p_orbits) ==
    HyperplaneLoop(c, p_orbits, 1, [ checked |-> {}, hv |-> << >> ])

(***************************************************************************)
(* Ranks: a list of element lists, ranks[0] the nullitope's.               *)
(***************************************************************************)
\* Abstract::dyad().ranks()
Dyad == << << << >> >>, << << 0 >>, << 0 >> >>, << << 0, 1 >> >> >>

\* The "virtual edge" ridge template on local vertex v of the rank-2 case.
VirtualEdge(v) == << << >>, << << 0 >> >>, << << v >> >> >>

\* ranks[2] with every subelement index s replaced by list[s].
MapRank2(ranks, list) ==
    [ ranks EXCEPT ![3] = [ j \in 1..Len(@) |-> MapThrough(list, @[j]) ] ]

\* Ranks::element_sort_strong, level by level: the element list of rank k is
\* sorted and the subelement lists of rank k + 1 are renumbered and sorted.
RECURSIVE SortLevels(_, _)
SortLevels(ranks, k) ==
    IF k >= Len(ranks) - 1 THEN ranks
    ELSE LET els == At(ranks, k)
             sorted == SortSeq(els, LexLess)
             perm(i) == (CHOOSE j \in 1..Len(sorted) : sorted[j] = els[i + 1]) - 1
             up == At(ranks, k + 1)
             new_up == [ i \in 1..Len(up) |->
                         SortNums([ t \in 1..Len(up[i]) |-> perm(up[i][t]) ]) ]
         IN  SortLevels([ ranks EXCEPT ![k + 1] = sorted, ![k + 2] = new_up ], k + 1)

\* Ranks::element_sort_strong: a canonical form that does not depend on the
\* order of the elements of a rank nor of the subelements of an element.
ElementSortStrong(ranks) ==
    SortLevels([ ranks EXCEPT ![3] = [ j \in 1..Len(@) |-> SortNums(@[j]) ] ], 2)

\* Ranks::element_sort_strong_with_local: the same canonical form; local is
\* the facet in the numbering of its own hyperplane.
ElementSortStrongWithLocal(ranks, local) == ElementSortStrong(ranks)

\* Ranks::is_dyadic: for every element of rank >= 2, every element two ranks
\* below it is reached through exactly two of its subelements.
IsDyadic(ranks) ==
    \A r \in 2..(Len(ranks) - 1) :
        \A e \in 1..Len(At(ranks, r)) :
            LET subs == At(ranks, r)[e]
                below(i) == At(At(ranks, r - 1), subs[i])
                reached == UNION { Range(below(i)) : i \in 1..Len(subs) }
            IN  \A g \in reached :
                    Cardinality({ i \in 1..Len(subs) : g \in Range(below(i)) }) = 2

(***************************************************************************)
(* Stabilizer of a hyperplane, in the hyperplane's local numbering.        *)
(***************************************************************************)
\* The first such row alone.
StabilizerRows_first(vm, hp_v, i) ==
    LET ok == { j \in i..Len(vm) : SortNums(MapThrough(vm[j], hp_v)) = hp_v }
    IN  IF ok = {} THEN << >>
        ELSE << MapThrough(vm[CHOOSE j \in ok : \A k \in ok : j <= k], hp_v) >>

\* The rows that map the vertex list hp_v onto itself, cut to hp_v.
RECURSIVE StabilizerRows(_, _, _)
StabilizerRows(vm, hp_v, i) ==
    IF i > Len(vm) THEN << >>
    ELSE LET slice == MapThrough(vm[i], hp_v)
         IN  (IF SortNums(slice) = hp_v THEN << slice >> ELSE << >>)
             \o StabilizerRows(vm, hp_v, i + 1)

\* map_back: the position of a vertex in stabilizer[0].
MapBack(first, el) == (CHOOSE idx \in 1..Len(first) : first[idx] = el) - 1

\* new_stabilizer: the stabilizer rewritten through map_back.
NewStabilizer(stabilizer) ==
    [ a \in 1..Len(stabilizer) |->
        [ b \in 1..Len(stabilizer[a]) |-> MapBack(stabilizer[1], stabilizer[a][b]) ] ]

(***************************************************************************)
(* Ridge orbit registry.  st = [map, counts, next]: map is ridge_orbits as *)
(* a set of [key, idx], counts is ridge_counts, next is orbit_idx.         *)
(***************************************************************************)
Lookup(map, key) ==
    IF \E e \in map : e.key = key
    THEN (CHOOSE e \in map : e.key = key).idx
    ELSE -1

\* Mutant of CountNew: every row is counted, also one whose image is known.
CountNew_all(count, known) == count + 1

\* count += 1 for an image that was not in ridge_orbits.
CountNew(count, known) == IF known THEN count ELSE count + 1

\* The loop over the rows that registers the orbit of a new ridge.
RECURSIVE RegisterOrbit(_, _, _, _, _, _)
RegisterOrbit(vm, ridge, i, map, orbit_idx, count) ==
    IF i > Len(vm) \/ ~Computed(count) THEN [ map |-> map, count |-> count ]
    ELSE LET new_ridge == ElementSortStrong(MapRank2(ridge, vm[i]))
             known == Lookup(map, new_ridge) # -1
         IN  RegisterOrbit(vm, ridge, i + 1,
                           IF known THEN map
                           ELSE map \cup { [ key |-> new_ridge, idx |-> orbit_idx ] },
                           orbit_idx, CountNew(count, known))

\* One ridge: its orbit index, and the registry after it.
RegisterRidge(vm, hp_v, ridge0, st) ==
    LET ridge == ElementSortStrong(MapRank2(ridge0, hp_v))
        found == Lookup(st.map, ridge)
        r == RegisterOrbit(vm, ridge, 1, st.map, st.next, 0)
    IN  IF found # -1 THEN [ idx |-> found, st |-> st ]
        ELSE [ idx |-> st.next,
               st  |-> [ map |-> r.map, counts |-> Append(st.counts, r.count),
                         next |-> st.next + 1 ] ]

\* The loop over the ridges of one list ridges[hp_i][a].
RECURSIVE RegisterRow(_, _, _, _, _, _)

\* ridge_idx_orbits_row_row.push(idx), r = [idx, st] being what ridge b got.
RegisterRowAfter(vm, hp_v, row, b, idxs, r) ==
    RegisterRow(vm, hp_v, row, b + 1, r.st, Append(idxs, r.idx))

RegisterRow(vm, hp_v, row, b, st, idxs) ==
    IF b > Len(row) \/ ~Computed(<< st, idxs >>) THEN [ st |-> st, idxs |-> idxs ]
    ELSE RegisterRowAfter(vm, hp_v, row, b, idxs, RegisterRidge(vm, hp_v, row[b], st))

\* The loop over the lists of one hyperplane orbit.
RECURSIVE RegisterHyperplane(_, _, _, _, _, _)

\* ridge_idx_orbits_row.push(ridge_idx_orbits_row_row)
RegisterHyperplaneAfter(vm, hp_v, rows, a, idxs, r) ==
    RegisterHyperplane(vm, hp_v, rows, a + 1, r.st, Append(idxs, r.idxs))

RegisterHyperplane(vm, hp_v, rows, a, st, idxs) ==
    IF a > Len(rows) \/ ~Computed(<< st, idxs >>) THEN [ st |-> st, idxs |-> idxs ]
    ELSE RegisterHyperplaneAfter(vm, hp_v, rows, a, idxs,
                                 RegisterRow(vm, hp_v, rows[a], 1, st, << >>))

\* The loop over the hyperplane orbits.
RECURSIVE RegisterAll(_, _, _, _, _, _)

\* ridge_idx_orbits.push(ridge_idx_orbits_row)
RegisterAllAfter(vm, hv, all_ridges, hp_i, idxs, r) ==
    RegisterAll(vm, hv, all_ridges, hp_i + 1, r.st, Append(idxs, r.idxs))

RegisterAll(vm, hv, all_ridges, hp_i, st, idxs) ==
    IF hp_i > Len(all_ridges) \/ ~Computed(<< st, idxs >>) THEN [ st |-> st, idxs |-> idxs ]
    ELSE RegisterAllAfter(vm, hv, all_ridges, hp_i, idxs,
                          RegisterHyperplane(vm, At(hv[hp_i], 0), all_ridges[hp_i], 1,
                                             st, << >>))

\* [idxs |-> ridge_idx_orbits, st.counts |-> ridge_counts]
RidgeRegistry(vm, hv, all_ridges) ==
    RegisterAll(vm, hv, all_ridges, 1, [ map |-> {}, counts |-> << >>, next |-> 0 ], << >>)

(***************************************************************************)
(* Facet combination search.  An environment e carries the tables the      *)
(* search reads: pf (possible_facets, each [ranks, types]), pfg            *)
(* (possible_facets_global), ff_counts, ridge_idx_orbits, ridge_counts,    *)
(* f_counts, vm, n (the vertex count) and rank.  A frame is << h, f >>.    *)
(***************************************************************************)
Last(s) == s[Len(s)]

Front(s) == SubSeq(s, 1, Len(s) - 1)

SetLast(s, x) == [ s EXCEPT ![Len(s)] = x ]

RECURSIVE Flatten(_)
Flatten(ss) == IF ss = << >> THEN << >> ELSE Head(ss) \o Flatten(Tail(ss))

\* A list without its repeated entries, first occurrences kept.
Dedup(s) ==
    LET firsts == { i \in 1..Len(s) : \A j \in 1..(i - 1) : s[j] # s[i] }
    IN  [ k \in 1..Cardinality(firsts) |->
          s[CHOOSE i \in firsts : Cardinality({ j \in firsts : j < i }) = k - 1] ]

\* if t.1 == possible_facets[t.0].len() - 1 { t.0 += 1; t.1 = 0 } else { t.1 += 1 }
Advance(pf, t) ==
    IF t[2] = Len(At(pf, t[1])) - 1 THEN << t[1] + 1, 0 >> ELSE << t[1], t[2] + 1 >>

\* Mutant of Extend: the pushed frame starts again at the first orbit.
Extend_zero(stack) == Append(stack, << 0, 0 >>)

\* Mutant of Extend: the pushed frame repeats the orbit of the top frame.
Extend_same(stack) == Append(stack, << Last(stack)[1], 0 >>)

\* facets.push((t.0 + 1, 0))
Extend(stack) == Append(stack, << Last(stack)[1] + 1, 0 >>)

\* The inner loop that opens every iteration of 'l: the stack at the next
\* evaluation, or the empty stack when the search is over.
RECURSIVE Normalize(_, _)
Normalize(pf, stack) ==
    LET t == Last(stack)
    IN  IF t[1] >= Len(pf)
        THEN LET popped == Front(stack)
                 t2 == Last(popped)
             IN  IF popped = << >> THEN << >>
                 ELSE IF t2[2] + 1 >= Len(At(pf, t2[1]))
                      THEN Normalize(pf, SetLast(popped, << t2[1] + 1, 0 >>))
                      ELSE Normalize(pf, SetLast(popped, << t2[1], t2[2] + 1 >>))
        ELSE IF t[2] >= Len(At(pf, t[1]))
             THEN Normalize(pf, SetLast(stack, << t[1] + 1, 0 >>))
             ELSE stack

\* let mul = f_count * ridge_count / total_ridge_count
Mul(f_count, ridge_count, total_ridge_count) ==
    (f_count * ridge_count) \div total_ridge_count

\* The (hp, ridge_idx) pairs in the order loop 'a visits them.
CoverageItems(e, stack) ==
    Flatten([ k \in 1..Len(stack) |->
              LET types == At(At(e.pf, stack[k][1]), stack[k][2]).types
              IN  [ j \in 1..Len(types) |->
                    [ hp |-> stack[k][1], a |-> types[j][1], b |-> types[j][2] ] ] ])

\* Loop 'a: acc = [ridges, exact]; it ends at the first entry above 2.
RECURSIVE Accumulate(_, _, _, _)
Accumulate(e, items, k, acc) ==
    IF k > Len(items) THEN acc
    ELSE LET it == items[k]
             ridge_orbit == At(At(At(e.ridge_idx_orbits, it.hp), it.a), it.b)
             ridge_count == At(At(e.ff_counts, it.hp), it.a)
             total_ridge_count == At(e.ridge_counts, ridge_orbit)
             f_count == At(e.f_counts, it.hp)
             next == [ ridges |-> [ acc.ridges EXCEPT ![ridge_orbit + 1] =
                                       @ + Mul(f_count, ridge_count, total_ridge_count) ],
                       exact  |-> acc.exact
                                  /\ (f_count * ridge_count) % total_ridge_count = 0 ]
         IN  IF At(next.ridges, ridge_orbit) > 2 THEN next
             ELSE Accumulate(e, items, k + 1, next)

Coverage(e, stack) ==
    Accumulate(e, CoverageItems(e, stack), 1,
               [ ridges |-> [ i \in 1..Len(e.ridge_counts) |-> 0 ], exact |-> TRUE ])

\* Mutant of Classify: an entry equal to 1 is looked for first.
Classify_onefirst(rs, i, v) ==
    IF \E k \in 1..Len(rs) : rs[k] = 1 THEN 2
    ELSE IF \E k \in 1..Len(rs) : rs[k] > 2 THEN 1
    ELSE 0

\* The loop that sets valid: 0 valid, 1 exotic, 2 incomplete.
RECURSIVE Classify(_, _, _)
Classify(rs, i, v) ==
    IF i > Len(rs) THEN v
    ELSE IF rs[i] > 2 THEN 1
    ELSE Classify(rs, i + 1, IF rs[i] = 1 THEN 2 ELSE v)

(***************************************************************************)
(* Faceting assembler.                                                     *)
(***************************************************************************)
\* The images of every facet type of the stack under every row, sorted, in
\* the order they are inserted into facet_set.
FacetImages(e, stack) ==
    Flatten([ k \in 1..Len(stack) |->
              LET facet == At(At(e.pfg, stack[k][1]), stack[k][2]).ranks
                  facet_local == At(At(e.pf, stack[k][1]), stack[k][2]).ranks
              IN  [ i \in 1..Len(e.vm) |->
                    ElementSortStrongWithLocal(MapRank2(facet, e.vm[i]), facet_local) ] ])

\* Vec::from_iter(facet_set): the distinct facets.  A HashSet iterates in an
\* unspecified order; the order of first insertion is used.
FacetVec(e, stack) == Dedup(FacetImages(e, stack))

\* The loop "for r in 2..rank-1": the elements of rank r of all facets are
\* numbered, and rank r + 1 of every facet is rewritten to these numbers.
RECURSIVE MiddleRanks(_, _, _, _)
MiddleRanks(rk, r, facet_vec, ranks) ==
    IF r >= rk - 1 THEN [ facet_vec |-> facet_vec, ranks |-> ranks ]
    ELSE LET idx_to_subs == Dedup(Flatten([ i \in 1..Len(facet_vec) |-> At(facet_vec[i], r) ]))
             subs_to_idx(subs) ==
                 (CHOOSE j \in 1..Len(idx_to_subs) : idx_to_subs[j] = subs) - 1
             rewritten(i) ==
                 LET els == At(facet_vec[i], r)
                     up == At(facet_vec[i], r + 1)
                 IN  [ j \in 1..Len(up) |->
                       [ t \in 1..Len(up[j]) |-> subs_to_idx(At(els, up[j][t])) ] ]
         IN  MiddleRanks(rk, r + 1,
                         [ i \in 1..Len(facet_vec) |->
                           [ facet_vec[i] EXCEPT ![r + 2] = rewritten(i) ] ],
                         Append(ranks, idx_to_subs))

\* Mutant of VertexRank: one element more than there are vertices.
VertexRank_extra(total_vert_count) == [ i \in 1..(total_vert_count + 1) |-> << 0 >> ]

\* vec![Element::new(vec![0].into(), vec![].into()); total_vert_count]
VertexRank(total_vert_count) == [ i \in 1..total_vert_count |-> << 0 >> ]

\* The ranks of the faceting built from the facets of the stack.
Assemble(e, stack) ==
    LET start == << << << >> >>, VertexRank(e.n) >>
        m == MiddleRanks(e.rank, 2, FacetVec(e, stack), start)
        new_rank == Dedup([ i \in 1..Len(m.facet_vec) |->
                            SortNums(At(At(m.facet_vec[i], e.rank - 1), 0)) ])
    IN  m.ranks \o << new_rank >> \o << << [ i \in 1..Len(new_rank) |-> i - 1 ] >> >>

(***************************************************************************)
(* Recursive sub-faceter.  It returns [panic, output, f_counts, ridges]:   *)
(* output lists the facetings as [ranks, types], types being the stack of  *)
(* facet-type keys each was built from.                                    *)
(***************************************************************************)
\* Mutant of Snub: no dyad is taken for a snub one.
Snub_never(vm) == FALSE

\* let mut snub = true; for row in &vertex_map { if row[0] == 1 { snub = false } }
Snub(vm) == \A i \in 1..Len(vm) : At(vm[i], 0) # 1

\* Mutant of BaseCase: a snub dyad is reported like a non-snub one.
BaseCase_nosnub(vm) ==
    [ panic |-> FALSE,
      output |-> << [ ranks |-> Dyad, types |-> << << 0, 0 >> >> ] >>,
      f_counts |-> << 2 >>,
      ridges |-> << << VirtualEdge(0) >> >> ]

\* The rank-2 case: the only faceting of a dyad is itself.
BaseCase(vm) ==
    IF Snub(vm)
    THEN [ panic |-> FALSE,
           output |-> << [ ranks |-> Dyad, types |-> << << 0, 0 >>, << 1, 0 >> >> ] >>,
           f_counts |-> << 1, 1 >>,
           ridges |-> << << VirtualEdge(0) >>, << VirtualEdge(1) >> >> ]
    ELSE [ panic |-> FALSE,
           output |-> << [ ranks |-> Dyad, types |-> << << 0, 0 >> >> ] >>,
           f_counts |-> << 2 >>,
           ridges |-> << << VirtualEdge(0) >> >> ]

\* The tables the search of a call reads.
Env(c, pf, pfg, ff, reg, hv) ==
    [ pf |-> pf, pfg |-> pfg, ff_counts |-> ff, ridge_idx_orbits |-> reg.idxs,
      ridge_counts |-> reg.st.counts,
      f_counts |-> [ i \in 1..Len(hv) |-> Len(hv[i]) ],
      vm |-> c.vm, n |-> Len(c.points), rank |-> c.rank ]

\* One iteration of the loop 'l of faceting_subdim on s = [stack, out]: the
\* stack is normalized and evaluated, a valid one is pushed to output, and
\* the stack moves on.  The empty stack is the loop left.
SubStep(e, irc_, s) ==
    LET st == Normalize(e.pf, s.stack)
        v == Classify(Coverage(e, st).ridges, 1, 0)
        moved == SetLast(st, Advance(e.pf, Last(st)))
    IN  IF s.stack = << >> THEN s
        ELSE IF st = << >> THEN [ stack |-> << >>, out |-> s.out ]
        ELSE IF v = 0
             THEN [ stack |-> IF irc_ THEN Extend(st) ELSE moved,
                    out |-> Append(s.out, [ ranks |-> Assemble(e, st), types |-> st ]) ]
        ELSE IF v = 1 THEN [ stack |-> moved, out |-> s.out ]
        ELSE [ stack |-> Extend(st), out |-> s.out ]

\* The loop 'l run for up to 2^j iterations, by halves.
RECURSIVE SubRun(_, _, _, _)
SubRun(e, irc_, j, s) ==
    IF s.stack = << >> THEN s
    ELSE IF j = 0 THEN SubStep(e, irc_, s)
    ELSE SubRun(e, irc_, j - 1, SubRun(e, irc_, j - 1, s))

\* The loop 'l of faceting_subdim from facets = [(0, 0)]: [stack, out] when
\* it is left, the stack being empty then.
SubSearch(e, irc_) ==
    SubRun(e, irc_, MaxSubDoublings, [ stack |-> << << 0, 0 >> >>, out |-> << >> ])

\* possible_facets_global_row: every faceting with rank 2 in the caller's numbers.
GlobalRow(possible_facets_row, hp_v) ==
    [ j \in 1..Len(possible_facets_row) |->
      [ ranks |-> MapRank2(possible_facets_row[j].ranks, hp_v),
        types |-> possible_facets_row[j].types ] ]

RECURSIVE FacetingSubdim(_, _, _, _, _, _)

NoFacets == [ panic |-> FALSE, pf |-> << >>, pfg |-> << >>, ridges |-> << >>,
              ff_counts |-> << >> ]

\* The call of faceting_subdim for one hyperplane orbit: the points of its
\* first hyperplane, and its stabilizer in local numbers (an empty stabilizer
\* has no row 0 to index).
SubFacetOf(c, hp_v, stabilizer) ==
    IF stabilizer = << >>
    THEN [ panic |-> TRUE, output |-> << >>, f_counts |-> << >>, ridges |-> << >> ]
    ELSE FacetingSubdim(c.rank - 1, [ k \in 1..Len(hp_v) |-> At(c.points, hp_v[k]) ],
                        NewStabilizer(stabilizer), c.e_l, c.irc, c.oc)

\* The four pushes that end an iteration of "Facet the hyperplanes".
AddFacets(acc, sub, hp_v) ==
    [ panic |-> FALSE,
      pf |-> Append(acc.pf, sub.output),
      pfg |-> Append(acc.pfg, GlobalRow(sub.output, hp_v)),
      ridges |-> Append(acc.ridges, sub.ridges),
      ff_counts |-> Append(acc.ff_counts, sub.f_counts) ]

\* The loop "Facet the hyperplanes", from orbit i on: acc = [panic, pf, pfg,
\* ridges, ff_counts].
RECURSIVE SubFacets(_, _, _, _)

\* The loop after the sub-faceting of orbit i has returned sub.
SubFacetsAfter(c, hv, i, acc, sub) ==
    IF sub.panic THEN [ acc EXCEPT !.panic = TRUE ]
    ELSE SubFacets(c, hv, i + 1, AddFacets(acc, sub, At(hv[i], 0)))

SubFacets(c, hv, i, acc) ==
    IF i > Len(hv) \/ ~Computed(acc) THEN acc
    ELSE SubFacetsAfter(c, hv, i, acc,
                        SubFacetOf(c, At(hv[i], 0), StabilizerRows(c.vm, At(hv[i], 0), 1)))

\* Mutant of OutputRidges: the ridge lists are returned empty.
OutputRidges_none(pfg) == [ i \in 1..Len(pfg) |-> << >> ]

\* output_ridges: the facetings of every hyperplane orbit, in the caller's numbers.
OutputRidges(pfg) ==
    [ i \in 1..Len(pfg) |-> [ j \in 1..Len(pfg[i]) |-> pfg[i][j].ranks ] ]

\* The orbit passes and the hyperplane enumeration of a call with context c.
SubdimHyperplanes(c) ==
    HyperplaneOrbits(c, PairOrbits(c.points, c.vm, c.e_l,
                                   VertexOrbits(Len(c.points), c.vm)))

\* The tables of the search of a call, from its hyperplanes h and facets f.
SubdimEnv(c, h, f) ==
    Env(c, f.pf, f.pfg, f.ff_counts, RidgeRegistry(c.vm, h.hv, f.ridges), h.hv)

\* return (output, f_counts, output_ridges)
SubdimReturn(h, f, run) ==
    IF h.panic \/ f.panic \/ run.stack # << >>
    THEN [ panic |-> TRUE, output |-> << >>, f_counts |-> << >>, ridges |-> << >> ]
    ELSE [ panic |-> FALSE,
           output |-> run.out,
           f_counts |-> [ i \in 1..Len(h.hv) |-> Len(h.hv[i]) ],
           ridges |-> OutputRidges(f.pfg) ]

\* The call from the registry on, its hyperplanes h and facets f given.
SubdimSearch(c, h, f) == SubdimReturn(h, f, SubSearch(SubdimEnv(c, h, f), c.irc))

\* The call from "Facet the hyperplanes" on.
SubdimFacet(c, h) == SubdimSearch(c, h, SubFacets(c, h.hv, 1, NoFacets))

FacetingSubdim(r, points, vm, e_l, irc_, oc) ==
    IF r = 2 THEN BaseCase(vm)
    ELSE SubdimFacet(Ctx(points, vm, e_l, r, irc_, FALSE, oc),
                     SubdimHyperplanes(Ctx(points, vm, e_l, r, irc_, FALSE, oc)))

(***************************************************************************)
(* Inputs of Concrete::faceting.                                           *)
(***************************************************************************)
Square == [ rank |-> 3,
            vertices |-> << << 0, 0 >>, << 1, 0 >>, << 1, 1 >>, << 0, 1 >> >> ]

Tetrahedron == [ rank |-> 4,
                 vertices |-> << << 0, 0, 0 >>, << 1, 1, 0 >>, << 1, 0, 1 >>, << 0, 1, 1 >> >> ]

SquarePyramid == [ rank |-> 4,
                   vertices |-> << << 0, 0, 0 >>, << 2, 0, 0 >>, << 2, 2, 0 >>, << 0, 2, 0 >>,
                                   << 1, 1, 1 >> >> ]

Shapes == { Square, Tetrahedron, SquarePyramid }

\* get_symmetry_group: the table of all vertex permutations induced by the
\* isometries of the vertex set, identity first.
FullSymmetry(points) ==
    GroupTable({ p \in Perms(Len(points)) :
                   \A i, j \in 1..Len(points) :
                       DistSq(points[p[i] + 1], points[p[j] + 1]) = DistSq(points[i], points[j]) })

\* Rows of the explicit tables: the cycle v -> v + 1 and the swap of 0 and 1.
Cycle(n) == [ i \in 1..n |-> i % n ]

Swap01(n) == [ i \in 1..n |-> IF i = 1 THEN 1 ELSE IF i = 2 THEN 0 ELSE i - 1 ]

SeqsUpTo(S, k) == UNION { [1..m -> S] : m \in 0..k }

\* GroupEnum::VertexMap(a): an explicit table, identity first.
ExplicitTables(n) ==
    { << Identity(n) >> \o s : s \in SeqsUpTo({ Cycle(n), Swap01(n) }, MaxExtraRows) }

\* The squared edge lengths passed, besides None.
EdgeLengths == { None, Some(1), Some(2), Some(3) }

Nobles == { None } \cup { Some(m) : m \in 0..MaxNoble }

IdleSub == [ panic |-> FALSE, output |-> << >>, f_counts |-> << >>, ridges |-> << >> ]

Init ==
    /\ \E shape \in Shapes :
          /\ rank = shape.rank
          /\ vertices = shape.vertices
          /\ vertex_map \in { FullSymmetry(shape.vertices) }
                             \cup ExplicitTables(Len(shape.vertices))
    /\ edge_length \in EdgeLengths
    /\ noble \in Nobles
    /\ irc \in BOOLEAN
    /\ overflow_checks \in BOOLEAN
    /\ pc = "orbits"
    /\ vertex_orbits = << >>
    /\ pair_orbits = << >>
    /\ hyperplanes_vertices = << >>
    /\ possible_facets = << >>
    /\ possible_facets_global = << >>
    /\ ff_counts = << >>
    /\ ridges = << >>
    /\ ridge_idx_orbits = << >>
    /\ ridge_counts = << >>
    /\ f_counts = << >>
    /\ facets = << >>
    /\ evaluated = << >>
    /\ accepted = << >>
    /\ valid = -1
    /\ cover = << >>
    /\ exact = TRUE
    /\ evals = 0
    /\ output = << >>
    /\ sub_result = IdleSub
    /\ new_vertices = << >>
    /\ update_pos = 0
    /\ tested = << >>

inputs == << rank, vertices, vertex_map, edge_length, noble, irc, overflow_checks >>

searchTables == << possible_facets, possible_facets_global, ff_counts, ridges,
                  ridge_idx_orbits, ridge_counts, f_counts >>

odometer == << new_vertices, update_pos, tested >>

searchState == << facets, evaluated, accepted, valid, cover, exact, evals, output >>

TopCtx == Ctx(vertices, vertex_map, edge_length, rank, irc, TRUE, overflow_checks)

(***************************************************************************)
(* Concrete::faceting, phase by phase.                                     *)
(***************************************************************************)
VertexOrbitPass ==
    /\ pc = "orbits"
    /\ vertex_orbits' = VertexOrbits(Len(vertices), vertex_map)
    /\ pc' = "pairs"
    /\ UNCHANGED << inputs, pair_orbits, hyperplanes_vertices, searchTables,
                    searchState, sub_result, odometer >>

PairOrbitPass ==
    /\ pc = "pairs"
    /\ pair_orbits' = PairOrbits(vertices, vertex_map, edge_length, vertex_orbits)
    /\ pc' = "hyperplanes"
    /\ UNCHANGED << inputs, vertex_orbits, hyperplanes_vertices, searchTables,
                    searchState, sub_result, odometer >>

EnumerateHyperplanes ==
    /\ pc = "hyperplanes"
    /\ \E h \in { HyperplaneOrbits(TopCtx, pair_orbits) } :
           /\ hyperplanes_vertices' = h.hv
           /\ pc' = IF h.panic THEN "panic" ELSE "subfacet"
    /\ UNCHANGED << inputs, vertex_orbits, pair_orbits, searchTables, searchState,
                    sub_result, odometer >>

FacetHyperplanes ==
    /\ pc = "subfacet"
    /\ \E f \in { SubFacets(TopCtx, hyperplanes_vertices, 1, NoFacets) } :
           /\ possible_facets' = f.pf
           /\ possible_facets_global' = f.pfg
           /\ ridges' = f.ridges
           /\ ff_counts' = f.ff_counts
           /\ pc' = IF f.panic THEN "panic" ELSE "registry"
    /\ UNCHANGED << inputs, vertex_orbits, pair_orbits, hyperplanes_vertices,
                    ridge_idx_orbits, ridge_counts, f_counts, searchState, sub_result, odometer >>

RegisterRidges ==
    /\ pc = "registry"
    /\ \E reg \in { RidgeRegistry(vertex_map, hyperplanes_vertices, ridges) } :
           /\ ridge_idx_orbits' = reg.idxs
           /\ ridge_counts' = reg.st.counts
    /\ f_counts' = [ i \in 1..Len(hyperplanes_vertices) |-> Len(hyperplanes_vertices[i]) ]
    /\ facets' = << << 0, 0 >> >>
    /\ pc' = "search"
    /\ UNCHANGED << inputs, vertex_orbits, pair_orbits, hyperplanes_vertices,
                    possible_facets, possible_facets_global, ff_counts, ridges,
                    evaluated, accepted, valid, cover, exact, evals, output, sub_result, odometer >>

TopEnv ==
    [ pf |-> possible_facets, pfg |-> possible_facets_global, ff_counts |-> ff_counts,
      ridge_idx_orbits |-> ridge_idx_orbits, ridge_counts |-> ridge_counts,
      f_counts |-> f_counts, vm |-> vertex_map, n |-> Len(vertices), rank |-> rank ]

\* The stack the next iteration of 'l evaluates (empty: the loop is left).
Evaluated == Normalize(possible_facets, facets)

\* Mutant of Emit: the candidate is appended whatever is_dyadic answers.
Emit_unchecked(out, poly) == Append(out, poly)

\* Mutant of Emit: a candidate that fails the check empties the output.
Emit_clear(out, poly) ==
    IF IsDyadic(poly.ranks) THEN Append(out, poly) ELSE << >>

\* poly.untangle_faces(): it rearranges faces for display; the vertex list
\* and the ranks the search built are kept as they are.
UntangleFaces(poly) == poly

\* if builder.ranks().is_dyadic().is_ok() { ...; output.push(poly) }
Emit(out, poly) ==
    IF IsDyadic(poly.ranks) THEN Append(out, UntangleFaces(poly)) ELSE out

\* if let Some(max_facets) = noble { if facets.len() == max_facets { ... } }
BudgetReached(max_facets, stack) == max_facets # None /\ Len(stack) = max_facets[1]

\* Mutant of AfterValid: a frame is pushed whatever irc says.
AfterValid_push(stack) ==
    IF BudgetReached(noble, stack) THEN SetLast(stack, Advance(possible_facets, Last(stack)))
    ELSE Extend(stack)

\* Mutant of AfterValid: the stack is left as it was evaluated.
AfterValid_stay(stack) == stack

\* The stack after the step that follows a valid classification.
AfterValid(stack) ==
    IF BudgetReached(noble, stack) THEN SetLast(stack, Advance(possible_facets, Last(stack)))
    ELSE IF irc THEN Extend(stack)
    ELSE SetLast(stack, Advance(possible_facets, Last(stack)))

\* The stack after the step that follows an incomplete classification.
AfterIncomplete(stack) ==
    IF BudgetReached(noble, stack) THEN SetLast(stack, Advance(possible_facets, Last(stack)))
    ELSE Extend(stack)

\* What an iteration records of its evaluation.
Evaluate(v) ==
    /\ pc = "search"
    /\ Evaluated # << >>
    /\ \E cov \in { Coverage(TopEnv, Evaluated) } :
           /\ Classify(cov.ridges, 1, 0) = v
           /\ cover' = cov.ridges
           /\ exact' = cov.exact
    /\ evaluated' = Evaluated
    /\ accepted' = IF v = 0 THEN Append(accepted, Evaluated) ELSE accepted
    /\ valid' = v
    /\ evals' = evals + 1
    /\ pc' = "search"

SearchValid ==
    /\ Evaluate(0)
    /\ output' = Emit(output, [ vertices |-> vertices,
                                ranks |-> Assemble(TopEnv, Evaluated),
                                stack |-> Evaluated ])
    /\ facets' = AfterValid(Evaluated)
    /\ UNCHANGED << inputs, vertex_orbits, pair_orbits, hyperplanes_vertices,
                    searchTables, sub_result, odometer >>

SearchExotic ==
    /\ Evaluate(1)
    /\ facets' = SetLast(Evaluated, Advance(possible_facets, Last(Evaluated)))
    /\ UNCHANGED << inputs, vertex_orbits, pair_orbits, hyperplanes_vertices,
                    searchTables, output, sub_result, odometer >>

SearchIncomplete ==
    /\ Evaluate(2)
    /\ facets' = AfterIncomplete(Evaluated)
    /\ UNCHANGED << inputs, vertex_orbits, pair_orbits, hyperplanes_vertices,
                    searchTables, output, sub_result, odometer >>

SearchOver ==
    /\ pc = "search"
    /\ Evaluated = << >>
    /\ facets' = << >>
    /\ pc' = "done"
    /\ UNCHANGED << inputs, vertex_orbits, pair_orbits, hyperplanes_vertices,
                    searchTables, evaluated, accepted, valid, cover, exact, evals, output,
                    sub_result, odometer >>

Next ==
    \/ VertexOrbitPass
    \/ PairOrbitPass
    \/ EnumerateHyperplanes
    \/ FacetHyperplanes
    \/ RegisterRidges
    \/ SearchValid
    \/ SearchExotic
    \/ SearchIncomplete
    \/ SearchOver

Spec == Init /\ [][Next]_vars

(***************************************************************************)
(* SpecMap: the orbit passes and the rank-2 case of faceting_subdim, on    *)
(* every table of permutations up to the bounds and on every group table.  *)
(***************************************************************************)
\* vertex_map: identity first, then any permutations in any order.
ArbitraryTables(n) ==
    { << Identity(n) >> \o s : s \in SeqsUpTo(Perms(n), MaxRows - 1) }

\* The table of the group a few permutations generate, identity first.
GroupTables(n) ==
    { GroupTable(Closure(G \cup { Identity(n) })) :
        G \in { H \in SUBSET Perms(n) : Cardinality(H) <= MaxGenerators } }

\* N points of the plane, no three on a line, all distances distinct.
MapPoints(n) == [ i \in 1..n |-> << i - 1, (i - 1) * (i - 1) >> ]

InitMap ==
    /\ \E n \in 1..MaxN :
          /\ vertices = MapPoints(n)
          /\ vertex_map \in ArbitraryTables(n) \cup GroupTables(n)
    /\ rank \in { 2, 3 }
    /\ edge_length \in { None, Some(2) }
    /\ noble = None
    /\ irc = FALSE
    /\ overflow_checks = FALSE
    /\ pc = "called"
    /\ vertex_orbits = << >>
    /\ pair_orbits = << >>
    /\ hyperplanes_vertices = << >>
    /\ possible_facets = << >>
    /\ possible_facets_global = << >>
    /\ ff_counts = << >>
    /\ ridges = << >>
    /\ ridge_idx_orbits = << >>
    /\ ridge_counts = << >>
    /\ f_counts = << >>
    /\ facets = << >>
    /\ evaluated = << >>
    /\ accepted = << >>
    /\ valid = -1
    /\ cover = << >>
    /\ exact = TRUE
    /\ evals = 0
    /\ output = << >>
    /\ sub_result = IdleSub
    /\ new_vertices = << >>
    /\ update_pos = 0
    /\ tested = << >>

\* if rank == 2 { ... return ... }
MapBaseCase ==
    /\ pc = "called"
    /\ rank = 2
    /\ sub_result' = FacetingSubdim(rank, vertices, vertex_map, edge_length, irc,
                                    overflow_checks)
    /\ pc' = "returned"
    /\ UNCHANGED << inputs, vertex_orbits, pair_orbits, hyperplanes_vertices,
                    searchTables, searchState, odometer >>

\* The vertex-orbit pass of a call of rank above 2.
MapVertexOrbits ==
    /\ pc = "called"
    /\ rank > 2
    /\ vertex_orbits' = VertexOrbits(Len(vertices), vertex_map)
    /\ pc' = "pairs"
    /\ UNCHANGED << inputs, pair_orbits, hyperplanes_vertices, searchTables,
                    searchState, sub_result, odometer >>

\* The pair-orbit pass that follows it.
MapPairOrbits ==
    /\ pc = "pairs"
    /\ pair_orbits' = PairOrbits(vertices, vertex_map, edge_length, vertex_orbits)
    /\ pc' = "hyperplanes"
    /\ UNCHANGED << inputs, vertex_orbits, hyperplanes_vertices, searchTables,
                    searchState, sub_result, odometer >>

NextMap == MapBaseCase \/ MapVertexOrbits \/ MapPairOrbits

SpecMap == InitMap /\ [][NextMap]_vars

(***************************************************************************)
(* SpecPool: the loop 'l of Concrete::faceting on every pool of candidate  *)
(* facets up to the bounds, every budget and both values of irc.  The loop *)
(* reads of the pool only how many candidates each hyperplane orbit has;   *)
(* the class of a stack is left open, so every way the coverage vectors    *)
(* can fall is followed.  The loop body runs to its end once entered, and  *)
(* the loop is re-entered until it is left: weak fairness of the step.     *)
(***************************************************************************)
\* A candidate facet of which the loop reads nothing.
AnyFacet == [ ranks |-> << >>, types |-> << >> ]

\* possible_facets: up to MaxOrbits orbits of up to MaxTypes candidates each.
Pools == SeqsUpTo({ [ j \in 1..m |-> AnyFacet ] : m \in 0..MaxTypes }, MaxOrbits)

InitPool ==
    /\ possible_facets \in Pools
    /\ noble \in Nobles
    /\ irc \in BOOLEAN
    /\ facets = << << 0, 0 >> >>
    /\ pc = "search"
    /\ rank = 4
    /\ vertices = << >>
    /\ vertex_map = << >>
    /\ edge_length = None
    /\ overflow_checks = FALSE
    /\ vertex_orbits = << >>
    /\ pair_orbits = << >>
    /\ hyperplanes_vertices = << >>
    /\ possible_facets_global = << >>
    /\ ff_counts = << >>
    /\ ridges = << >>
    /\ ridge_idx_orbits = << >>
    /\ ridge_counts = << >>
    /\ f_counts = << >>
    /\ evaluated = << >>
    /\ accepted = << >>
    /\ valid = -1
    /\ cover = << >>
    /\ exact = TRUE
    /\ evals = 0
    /\ output = << >>
    /\ sub_result = IdleSub
    /\ new_vertices = << >>
    /\ update_pos = 0
    /\ tested = << >>

\* An iteration that classifies its stack as v.
PoolEvaluate(v) ==
    /\ pc = "search"
    /\ Evaluated # << >>
    /\ evaluated' = Evaluated
    /\ valid' = v
    /\ pc' = "search"
    /\ UNCHANGED << inputs, vertex_orbits, pair_orbits, hyperplanes_vertices,
                    searchTables, accepted, cover, exact, evals, output, sub_result, odometer >>

PoolValid == PoolEvaluate(0) /\ facets' = AfterValid(Evaluated)

PoolExotic ==
    PoolEvaluate(1) /\ facets' = SetLast(Evaluated, Advance(possible_facets, Last(Evaluated)))

PoolIncomplete == PoolEvaluate(2) /\ facets' = AfterIncomplete(Evaluated)

PoolOver ==
    /\ pc = "search"
    /\ Evaluated = << >>
    /\ facets' = << >>
    /\ pc' = "done"
    /\ UNCHANGED << inputs, vertex_orbits, pair_orbits, hyperplanes_vertices,
                    searchTables, evaluated, accepted, valid, cover, exact, evals,
                    output, sub_result, odometer >>

NextPool == PoolValid \/ PoolExotic \/ PoolIncomplete \/ PoolOver

SpecPool == InitPool /\ [][NextPool]_vars /\ WF_vars(NextPool)

(***************************************************************************)
(* SpecOdometer: the loop 'b of the hyperplane enumeration for one pair    *)
(* orbit, in a call of rank 4 or more: loop 'c is entered with the tuple   *)
(* new_vertices, then the loop "Increment new_vertices" runs.  The loop    *)
(* body runs on until the loop is left: weak fairness of the step.         *)
(***************************************************************************)
InitOdometer ==
    /\ rank \in 4..MaxRank
    /\ \E n \in 4..MaxVerts :
          /\ n >= rank
          /\ vertices = [ i \in 1..n |-> << i - 1 >> ]
    /\ overflow_checks \in BOOLEAN
    /\ new_vertices = [ i \in 1..(rank - 3) |-> 0 ]
    /\ update_pos = WrappingSub(rank, 4)
    /\ tested = << >>
    /\ pc = "tuple"
    /\ vertex_map = << >>
    /\ edge_length = None
    /\ noble = None
    /\ irc = FALSE
    /\ vertex_orbits = << >>
    /\ pair_orbits = << >>
    /\ hyperplanes_vertices = << >>
    /\ possible_facets = << >>
    /\ possible_facets_global = << >>
    /\ ff_counts = << >>
    /\ ridges = << >>
    /\ ridge_idx_orbits = << >>
    /\ ridge_counts = << >>
    /\ f_counts = << >>
    /\ facets = << >>
    /\ evaluated = << >>
    /\ accepted = << >>
    /\ valid = -1
    /\ cover = << >>
    /\ exact = TRUE
    /\ evals = 0
    /\ output = << >>
    /\ sub_result = IdleSub

\* Loop 'c is entered with the tuple new_vertices.
OdometerTest ==
    /\ pc = "tuple"
    /\ tested' = Append(tested, new_vertices)
    /\ pc' = "increment"
    /\ UNCHANGED << inputs, vertex_orbits, pair_orbits, hyperplanes_vertices,
                    searchTables, searchState, sub_result, new_vertices, update_pos >>

\* The loop "Increment new_vertices".
OdometerIncrement ==
    /\ pc = "increment"
    /\ \E inc \in { Increment(new_vertices, update_pos, Len(vertices), rank, overflow_checks) } :
           /\ new_vertices' = inc.nv
           /\ update_pos' = inc.update
           /\ pc' = IF inc.status = "next" THEN "tuple"
                    ELSE IF inc.status = "exit" THEN "left"
                    ELSE "panic"
    /\ UNCHANGED << inputs, vertex_orbits, pair_orbits, hyperplanes_vertices,
                    searchTables, searchState, sub_result, tested >>

NextOdometer == OdometerTest \/ OdometerIncrement

SpecOdometer == InitOdometer /\ [][NextOdometer]_vars /\ WF_vars(NextOdometer)

SquareRun ==
    /\ rank = 3
    /\ vertices = Square.vertices
    /\ vertex_map = FullSymmetry(Square.vertices)
    /\ Len(vertex_map) = 8
    /\ edge_length = None
    /\ noble = None

\* The edges of an emitted faceting, as sets of vertices.
EdgesOf(poly) == { Range(At(poly.ranks, 2)[j]) : j \in 1..Len(At(poly.ranks, 2)) }

\* C2 (Spec): faceting the square through Concrete::faceting runs to
\* completion and returns exactly one faceting, the square itself (its 4
\* sides, every vertex on two of them).
C2_SquareFaceted ==
    SquareRun =>
        /\ pc # "panic"
        /\ pc = "done" =>
              /\ Len(output) = 1
              /\ EdgesOf(output[1]) = { { 0, 1 }, { 1, 2 }, { 2, 3 }, { 0, 3 } }

\* C3 (SpecMap): after the vertex-orbit pass on any table of permutations
\* whose row 0 is the identity, every vertex is in exactly one orbit, once,
\* and no orbit is empty.
C3_VertexOrbitsPartition ==
    pc \in { "pairs", "hyperplanes" } =>
        /\ \A v \in 0..(Len(vertices) - 1) :
              Cardinality({ << k, j >> \in (1..Len(vertex_orbits)) \X (1..Len(vertices)) :
                              j <= Len(vertex_orbits[k]) /\ vertex_orbits[k][j] = v }) = 1
        /\ \A k \in 1..Len(vertex_orbits) : vertex_orbits[k] # << >>

\* The pass has run on a table that is not a group and found several orbits,
\* one of them with several vertices.
C3_SeveralOrbits ==
    /\ pc = "pairs"
    /\ ~IsClosed(vertex_map)
    /\ Len(vertex_orbits) >= 2
    /\ \E k \in 1..Len(vertex_orbits) : Len(vertex_orbits[k]) >= 2

\* The places where the unordered pair {a, b} stands in pair_orbits.
PairPlaces(a, b) ==
    { << k, j >> \in (1..Len(pair_orbits)) \X (1..(Len(vertices) * Len(vertices))) :
        /\ j <= Len(pair_orbits[k])
        /\ pair_orbits[k][j] \in { << a, b >>, << b, a >> } }

\* C4 (SpecMap): with a full table (closed under composition) and no edge
\* length, every unordered pair of distinct vertices stands in exactly one
\* pair orbit, once: never twice, never in none, never in both orders.
C4_PairOrbitsPartition ==
    (pc = "hyperplanes" /\ IsClosed(vertex_map) /\ edge_length = None) =>
        \A a, b \in 0..(Len(vertices) - 1) :
            a < b => Cardinality(PairPlaces(a, b)) = 1

\* The pair pass has run without edge length on a group table with more rows
\* than vertices, and it found a pair orbit of several pairs.
C4_GroupPairs ==
    /\ pc = "hyperplanes"
    /\ IsClosed(vertex_map)
    /\ edge_length = None
    /\ Len(vertex_map) > Len(vertices)
    /\ \E k \in 1..Len(pair_orbits) : Len(pair_orbits[k]) >= 2

\* Some row of the table sends local vertex 0 to 1.
SomeRowSwaps == \E i \in 1..Len(vertex_map) : vertex_map[i][1] = 1

\* C5 (SpecMap): the rank-2 case returns exactly one faceting, the dyad; when
\* some row sends 0 to 1 it reports counts [2], one facet-type key and one
\* ridge template, and otherwise counts [1, 1], two keys and two distinct
\* virtual-edge templates, on vertex 0 and on vertex 1.
C5_BaseCase ==
    pc = "returned" =>
        /\ ~sub_result.panic
        /\ Len(sub_result.output) = 1
        /\ sub_result.output[1].ranks = << << << >> >>, << << 0 >>, << 0 >> >>, << << 0, 1 >> >> >>
        /\ IF SomeRowSwaps
           THEN /\ sub_result.f_counts = << 2 >>
                /\ Len(sub_result.output[1].types) = 1
                /\ Len(sub_result.ridges) = 1
                /\ Len(sub_result.ridges[1]) = 1
           ELSE /\ sub_result.f_counts = << 1, 1 >>
                /\ Len(sub_result.output[1].types) = 2
                /\ sub_result.output[1].types[1] # sub_result.output[1].types[2]
                /\ Len(sub_result.ridges) = 2
                /\ Len(sub_result.ridges[1]) = 1
                /\ Len(sub_result.ridges[2]) = 1
                /\ At(sub_result.ridges[1][1], 2) = << << 0 >> >>
                /\ At(sub_result.ridges[2][1], 2) = << << 1 >> >>

\* The rank-2 case has returned for a table with a row that is not the
\* identity and with no row that sends 0 to 1.
C5_SnubReturned ==
    /\ pc = "returned"
    /\ ~SomeRowSwaps
    /\ \E i \in 1..Len(vertex_map) : vertex_map[i] # Identity(Len(vertices))

\* An edge length is given and no pair of vertices is at that distance.
NoPairMatches ==
    /\ edge_length # None
    /\ \A a, b \in 1..Len(vertices) :
          a # b => DistSq(vertices[a], vertices[b]) # edge_length[1]

\* C6 (Spec): with an edge length no pair matches, at every rank (3 too),
\* there are no pair orbits and no hyperplane orbits, the call does not
\* panic, the search stack empties on its first normalization (no stack is
\* ever evaluated), and the output is empty.
C6_NothingMatches ==
    NoPairMatches =>
        /\ pair_orbits = << >>
        /\ hyperplanes_vertices = << >>
        /\ pc # "panic"
        /\ pc = "search" => Evaluated = << >>
        /\ evals = 0
        /\ output = << >>

\* A call of rank 3 with an edge length no pair matches has returned.
C6_Rank3Returned ==
    /\ NoPairMatches
    /\ rank = 3
    /\ pc = "done"

\* The vertices an emitted faceting's edges use.
UsedVertices(poly) == UNION EdgesOf(poly)

C8_QuotientsExact ==
    /\ \A k \in 1..Len(ridge_counts) : ridge_counts[k] # 0
    /\ exact

\* The places (h, a, b) of the ridges the registry was given.
RidgePlaces ==
    UNION { UNION { { << h, a, b >> : b \in 1..Len(ridges[h][a]) } :
                    a \in 1..Len(ridges[h]) } :
            h \in 1..Len(ridges) }

\* The ridge at a place in the caller's numbers, in canonical form.
RidgeAt(p) ==
    ElementSortStrong(MapRank2(ridges[p[1]][p[2]][p[3]],
                               At(hyperplanes_vertices[p[1]], 0)))

\* The orbit id the registry gave the ridge at a place.
OrbitIdAt(p) == ridge_idx_orbits[p[1]][p[2]][p[3]]

\* The canonical images of a ridge under the rows of the vertex map.
RidgeImages(r) ==
    { ElementSortStrong(MapRank2(r, vertex_map[i])) : i \in 1..Len(vertex_map) }

\* What the registry owes its ridges: the same id exactly for ridges one of
\* which is an image of the other under a row, and for every orbit a count
\* that is the number of distinct canonical ridges in it.
RegistrySound ==
    /\ \A p, q \in RidgePlaces :
          (OrbitIdAt(p) = OrbitIdAt(q))
              <=> (RidgeAt(q) \in RidgeImages(RidgeAt(p))
                   \/ RidgeAt(p) \in RidgeImages(RidgeAt(q)))
    /\ \A p \in RidgePlaces :
          At(ridge_counts, OrbitIdAt(p)) = Cardinality(RidgeImages(RidgeAt(p)))

\* C9 (Spec), as stated: for every vertex map the registry, once built, is
\* sound.
C9_RegistryAnyTable ==
    (pc = "search" /\ evals = 0) => RegistrySound

\* C9 (Spec), amended: when the vertex map is a full table (closed under
\* composition), in the registry once built, ridges that are images of each other under a row get the
\* same orbit id, other ridges different ids, and the count of an orbit is
\* the number of distinct canonical ridges in it.
C9_RegistryFullTable ==
    (pc = "search" /\ evals = 0 /\ IsClosed(vertex_map)) => RegistrySound

\* The registry has been built under a group table of several rows: it holds
\* several orbits, one of several ridges, and two places share an orbit.
C9_OrbitsRegistered ==
    /\ pc = "search"
    /\ evals = 0
    /\ IsClosed(vertex_map)
    /\ Len(vertex_map) > 1
    /\ Len(ridge_counts) >= 2
    /\ \E k \in 1..Len(ridge_counts) : ridge_counts[k] >= 2
    /\ \E p, q \in RidgePlaces : p # q /\ OrbitIdAt(p) = OrbitIdAt(q)

\* C10 (Spec): with a budget m the search stack never holds more than m
\* frames, and every emitted faceting uses at most m facet types.
C10_BudgetCaps ==
    noble # None =>
        /\ Len(facets) <= noble[1]
        /\ \A i \in 1..Len(output) : Len(output[i].stack) <= noble[1]

\* a is b cut short: a proper prefix of b.
IsProperPrefix(a, b) == Len(a) < Len(b) /\ SubSeq(b, 1, Len(a)) = a

\* The step that follows a valid classification of the stack evaluated'.
AcceptStep == evals' = evals + 1 /\ valid' = 0

\* C11 (Spec): with irc set and the budget not reached, the step after
\* accepting a valid stack with top frame (h, f) pushes (h + 1, 0) and keeps
\* the accepted frames; with irc clear it advances the top frame to (h, f + 1)
\* or (h + 1, 0) and does not grow the stack, and no accepted stack is a
\* proper prefix of a later accepted stack.
C11_IrcStep ==
    /\ [][AcceptStep =>
            /\ (irc /\ ~BudgetReached(noble, evaluated')) =>
                   facets' = Append(evaluated', << Last(evaluated')[1] + 1, 0 >>)
            /\ ~irc =>
                   /\ Len(facets') = Len(evaluated')
                   /\ Front(facets') = Front(evaluated')
                   /\ Last(facets') \in { << Last(evaluated')[1], Last(evaluated')[2] + 1 >>,
                                          << Last(evaluated')[1] + 1, 0 >> }]_vars
    /\ [](~irc => \A i, j \in 1..Len(accepted) :
                      i < j => ~IsProperPrefix(accepted[i], accepted[j]))

\* With irc set and a budget not reached, several stacks have been accepted
\* and the stack evaluated last extends an accepted one, the frame pushed
\* after that one still in place.
C11_ExtendedAccepted ==
    /\ irc
    /\ noble # None
    /\ Len(accepted) >= 2
    /\ \E i \in 1..Len(accepted) : IsProperPrefix(accepted[i], evaluated)

\* Frames in lexicographic order, (h, f) before (h', f').
FrameLess(s, t) == s[1] < t[1] \/ (s[1] = t[1] /\ s[2] < t[2])

\* Stacks in lexicographic order of their frames from the bottom, a stack
\* before its extensions.
RECURSIVE StackLess(_, _)
StackLess(a, b) ==
    IF a = << >> THEN b # << >>
    ELSE IF b = << >> THEN FALSE
    ELSE IF Head(a) # Head(b) THEN FrameLess(Head(a), Head(b))
    ELSE StackLess(Tail(a), Tail(b))

\* The frames that name a candidate facet of the pool.
ValidFrames(pf) ==
    { << h, f >> \in (0..(Len(pf) - 1)) \X (0..MaxTypes) : f < Len(At(pf, h)) }

\* The root frame has passed the last candidate of the last orbit: no
\* candidate is left at the root frame (when it is the only frame) or after it.
RootPassed(pf, stack) ==
    ~\E fr \in ValidFrames(pf) :
        IF Len(stack) = 1 THEN fr = stack[1] \/ FrameLess(stack[1], fr)
        ELSE FrameLess(stack[1], fr)

\* An iteration of 'l that evaluates a stack (the loop is not left).
IterationStep == pc = "search" /\ pc' = "search"

\* C12 (SpecPool): for every pool, every irc and every budget the search
\* terminates; every iteration evaluates a stack strictly later than the one
\* before and leaves a strictly later stack, either the evaluated one with
\* its top frame advanced or the evaluated one extended by a frame of the
\* next hyperplane orbit; and the loop is left exactly when the root frame
\* has passed the last orbit.
C12_SearchTerminates ==
    /\ <>(pc = "done")
    /\ [][IterationStep =>
            /\ StackLess(evaluated, evaluated')
            /\ StackLess(evaluated', facets')
            /\ \/ facets' = Append(evaluated', << Last(evaluated')[1] + 1, 0 >>)
               \/ /\ Len(facets') = Len(evaluated')
                  /\ Front(facets') = Front(evaluated')
                  /\ FrameLess(Last(evaluated'), Last(facets'))]_vars
    /\ [][pc = "search" /\ facets' # facets =>
            ((pc' = "done") <=> RootPassed(possible_facets, facets))]_vars

\* The search is over for a pool of several orbits of several candidates,
\* under irc and with a budget, and the stack it evaluated last was the last
\* candidate of the last orbit alone.
C12_SearchOver ==
    /\ pc = "done"
    /\ irc
    /\ noble # None
    /\ Len(possible_facets) >= 2
    /\ \A h \in 1..Len(possible_facets) : Len(possible_facets[h]) >= 2
    /\ evaluated = << << Len(possible_facets) - 1, Len(Last(possible_facets)) - 1 >> >>

\* C13 (Spec): when an edge length is set, every pair of every pair orbit is
\* at that distance, the pairs added as images under the rows included,
\* whatever vertex map was supplied.
C13_OrbitPairsAtEdgeLength ==
    edge_length # None =>
        \A k \in 1..Len(pair_orbits) :
            \A j \in 1..Len(pair_orbits[k]) :
                DistSq(At(vertices, pair_orbits[k][j][1]),
                       At(vertices, pair_orbits[k][j][2])) = edge_length[1]

\* Every entry of a list of numbers is 1.
AllOnes(s) == \A i \in 1..Len(s) : s[i] = 1

\* Every list of a list of lists has exactly one member.
AllSingle(ss) == \A i \in 1..Len(ss) : Len(ss[i]) = 1

\* The context of the recursive call for the hyperplane with vertex list hp_v
\* of a call with context c.
SubCtx(c, hp_v) ==
    Ctx([ k \in 1..Len(hp_v) |-> At(c.points, hp_v[k]) ],
        NewStabilizer(StabilizerRows(c.vm, hp_v, 1)), c.e_l, c.rank - 1, c.irc,
        FALSE, c.oc)

\* Every multiplicity the coverage formula can add in a call with these
\* tables is 1: mul for orbit hp, its sub-orbit a and ridge orbit o.
MultiplicitiesOne(f_cnt, ff_cnt, idx_orbits, r_cnt) ==
    \A hp \in 1..Len(ff_cnt) : \A a \in 1..Len(ff_cnt[hp]) :
        \A b \in 1..Len(idx_orbits[hp][a]) :
            Mul(f_cnt[hp], ff_cnt[hp][a], At(r_cnt, idx_orbits[hp][a][b])) = 1

\* No orbit compression in the call of faceting_subdim with context c, nor in
\* the calls it makes.
RECURSIVE Uncompressed(_)

\* The same from the hyperplanes h of the call on, v_orbits and p_orbits
\* being its vertex and pair orbits.
UncompressedFrom(c, v_orbits, p_orbits, h, f) ==
    /\ AllSingle(v_orbits)
    /\ AllSingle(p_orbits)
    /\ ~h.panic
    /\ AllSingle(h.hv)
    /\ ~f.panic
    /\ \A i \in 1..Len(f.ff_counts) : AllOnes(f.ff_counts[i])
    /\ AllOnes(SubdimEnv(c, h, f).ridge_counts)
    /\ MultiplicitiesOne(SubdimEnv(c, h, f).f_counts, f.ff_counts,
                         SubdimEnv(c, h, f).ridge_idx_orbits,
                         SubdimEnv(c, h, f).ridge_counts)
    /\ \A i \in 1..Len(h.hv) : Uncompressed(SubCtx(c, At(h.hv[i], 0)))

UncompressedOrbits(c, v_orbits, p_orbits, h) ==
    UncompressedFrom(c, v_orbits, p_orbits, h, SubFacets(c, h.hv, 1, NoFacets))

Uncompressed(c) ==
    IF c.rank = 2
    THEN Snub(c.vm) /\ BaseCase(c.vm).f_counts = << 1, 1 >>
         /\ Len(BaseCase(c.vm).ridges) = 2
    ELSE UncompressedOrbits(c, VertexOrbits(Len(c.points), c.vm),
                            PairOrbits(c.points, c.vm, c.e_l,
                                       VertexOrbits(Len(c.points), c.vm)),
                            SubdimHyperplanes(c))

IdentityOnly == vertex_map = << Identity(Len(vertices)) >>

\* C14 (Spec): with the identity-only vertex map every vertex, pair,
\* hyperplane and ridge orbit has one member, in Concrete::faceting and in
\* every recursive call below it; every rank-2 case is reported as snub with
\* counts [1, 1]; and every multiplicity added to a coverage vector is 1.
C14_IdentityNoCompression ==
    IdentityOnly =>
        /\ AllSingle(vertex_orbits)
        /\ AllSingle(pair_orbits)
        /\ AllSingle(hyperplanes_vertices)
        /\ AllOnes(f_counts)
        /\ \A i \in 1..Len(ff_counts) : AllOnes(ff_counts[i])
        /\ AllOnes(ridge_counts)
        /\ pc = "registry" =>
               \A i \in 1..Len(hyperplanes_vertices) :
                   Uncompressed(SubCtx(TopCtx, At(hyperplanes_vertices[i], 0)))
        /\ (pc = "search" /\ evals = 0) =>
               MultiplicitiesOne(f_counts, ff_counts, ridge_idx_orbits, ridge_counts)

\* Under the identity-only map a polytope of rank 4 has had its hyperplanes
\* faceted, two levels of recursion down to the rank-2 case, and its ridges
\* registered, and a stack has been evaluated.
C14_IdentitySearched ==
    /\ IdentityOnly
    /\ rank = 4
    /\ pc = "search"
    /\ evals >= 1
    /\ Len(hyperplanes_vertices) >= 4
    /\ Len(ridge_counts) >= 6

\* The frames of a stack do not decrease from bottom to top.
NonDecreasing(stack) ==
    \A i, j \in 1..Len(stack) : i < j => ~FrameLess(stack[j], stack[i])

\* C15 (SpecPool): every stack whose coverage vector is computed is
\* lexicographically non-decreasing from bottom to top, and no stack is
\* evaluated after a stack that is not before it, so no multiset of facet
\* types is evaluated in two orders.
C15_StackNonDecreasing ==
    /\ [](NonDecreasing(evaluated))
    /\ [](pc = "search" => NonDecreasing(Evaluated))
    /\ [][IterationStep => StackLess(evaluated, evaluated')]_vars

\* A stack of three frames has been evaluated under irc after a valid one.
C15_ThreeFrames ==
    /\ pc = "search"
    /\ Len(evaluated) = 3
    /\ irc
    /\ valid = 0

\* The ridge orbit an item of loop 'a adds to, and what it adds.
ItemOrbit(e, it) == At(At(At(e.ridge_idx_orbits, it.hp), it.a), it.b)

ItemMul(e, it) ==
    Mul(At(e.f_counts, it.hp), At(At(e.ff_counts, it.hp), it.a),
        At(e.ridge_counts, ItemOrbit(e, it)))

\* The sum of a list of numbers.
RECURSIVE Sum(_)
Sum(s) == IF s = << >> THEN 0 ELSE Head(s) + Sum(Tail(s))

\* The coverage vector of a stack with every item added, no early exit.
FullCoverage(e, stack) ==
    [ o \in 1..Len(e.ridge_counts) |->
        Sum([ k \in 1..Len(CoverageItems(e, stack)) |->
              IF ItemOrbit(e, CoverageItems(e, stack)[k]) = o - 1
              THEN ItemMul(e, CoverageItems(e, stack)[k]) ELSE 0 ]) ]

\* The ridge orbits a facet of the stack refers to.
ReferencedOrbits(e, stack) ==
    { ItemOrbit(e, CoverageItems(e, stack)[k]) : k \in 1..Len(CoverageItems(e, stack)) }

\* The class the claim gives a full coverage vector: 0, 1 or 2, or -1 when
\* it gives none.
ClassOfVector(full, refs) ==
    IF \E o \in 1..Len(full) : full[o] > 2 THEN 1
    ELSE IF \E o \in 1..Len(full) : full[o] = 1 THEN 2
    ELSE IF \A o \in refs : At(full, o) = 2 THEN 0
    ELSE -1

\* A stack has been evaluated, and its class is in valid.
JustEvaluated == pc = "search" /\ evals >= 1

\* The top frame of the evaluated stack is advanced and nothing is pushed.
TopAdvanced ==
    /\ Len(facets') = Len(evaluated')
    /\ Front(facets') = Front(evaluated')
    /\ Last(facets') \in { << Last(evaluated')[1], Last(evaluated')[2] + 1 >>,
                           << Last(evaluated')[1] + 1, 0 >> }

\* (h + 1, 0) is pushed on the evaluated stack.
NextOrbitPushed == facets' = Append(evaluated', << Last(evaluated')[1] + 1, 0 >>)

\* What C16 says of the class and of the steps other than the incomplete one.
ClassifiedAsClaimed ==
    /\ [](JustEvaluated =>
            valid = ClassOfVector(FullCoverage(TopEnv, evaluated),
                                  ReferencedOrbits(TopEnv, evaluated)))
    /\ [][output' # output => AcceptStep]_vars
    /\ [][(evals' = evals + 1 /\ valid' = 1) => TopAdvanced]_vars

\* C16 (Spec): the class is valid iff every referenced ridge
\* orbit is covered exactly twice, exotic iff some entry exceeds 2
\* (whatever entries equal 1, and the early exit changes nothing), incomplete
\* iff some entry is 1 and none exceeds 2; only a valid stack is emitted, an
\* exotic one advances its top frame, an incomplete one pushes (h + 1, 0).
C16_ClassifyAndPush ==
    /\ ClassifiedAsClaimed
    /\ [][(evals' = evals + 1 /\ valid' = 2) => NextOrbitPushed]_vars

\* The places (orbit, member) of hyperplanes_vertices.
HyperplanePlaces ==
    UNION { { << i, j >> : j \in 1..Len(hyperplanes_vertices[i]) } :
            i \in 1..Len(hyperplanes_vertices) }

\* The sorted vertex list of the hyperplane at a place.
SortedAt(p) == SortNums(hyperplanes_vertices[p[1]][p[2]])

\* The hyperplanes a call of rank 4 discovers: for the first pair of every
\* pair orbit and every vertex v that passes the edge-length test, the
\* vertices on the flat through the three points, when they span a plane.
FoundHyperplanes ==
    { HyperplaneVertices(vertices,
                         [ t \in 1..3 |-> At(vertices, (pair_orbits[k][1] \o << v >>)[t]) ]) :
        << k, v >> \in { kv \in (1..Len(pair_orbits)) \X (0..(Len(vertices) - 1)) :
                          /\ TupleEdgeOk(TopCtx, pair_orbits[kv[1]][1], << kv[2] >>)
                          /\ IsHyperplane([ t \in 1..3 |->
                                            At(vertices,
                                               (pair_orbits[kv[1]][1] \o << kv[2] >>)[t]) ],
                                          4) } }

\* What C17 says of the hyperplane orbits, found being the hyperplanes the
\* call discovered.
HyperplaneOrbitsSound(found) ==
    /\ \A p, q \in HyperplanePlaces : p # q => SortedAt(p) # SortedAt(q)
    /\ \A i \in 1..Len(hyperplanes_vertices) :
          /\ hyperplanes_vertices[i] # << >>
          /\ hyperplanes_vertices[i][1] = SortNums(hyperplanes_vertices[i][1])
          /\ rank = 4 => hyperplanes_vertices[i][1] \in found
    /\ Cardinality({ SortedAt(p) : p \in HyperplanePlaces })
           = Sum([ i \in 1..Len(hyperplanes_vertices) |-> Len(hyperplanes_vertices[i]) ])
    /\ (rank = 4 /\ pc = "subfacet") =>
           \A hp \in found :
               Cardinality({ p \in HyperplanePlaces : SortedAt(p) = hp }) = 1

\* C17 (Spec): when the enumeration is over (or has panicked), no vertex
\* list stands at two places of the hyperplane orbits (two orbits, or twice
\* in one); every orbit is non-empty and its first member is a discovered
\* hyperplane, its vertex list sorted; the number of distinct hyperplanes is
\* the sum of the orbit sizes; and every hyperplane a call of rank 4
\* discovered stands at exactly one place.
C17_HyperplaneOrbits ==
    pc \in { "subfacet", "panic" } => HyperplaneOrbitsSound(FoundHyperplanes)

\* A call of rank 4 under a table of several rows has enumerated: several
\* orbits, one of several hyperplanes, one of a single hyperplane, and a
\* member that is an image whose vertex list is not sorted.
C17_OrbitsOfImages ==
    /\ rank = 4
    /\ pc = "subfacet"
    /\ Len(vertex_map) > 1
    /\ Len(hyperplanes_vertices) >= 2
    /\ \E i \in 1..Len(hyperplanes_vertices) : Len(hyperplanes_vertices[i]) >= 2
    /\ \E i \in 1..Len(hyperplanes_vertices) : Len(hyperplanes_vertices[i]) = 1
    /\ \E p \in HyperplanePlaces : SortedAt(p) # hyperplanes_vertices[p[1]][p[2]]

\* The strictly increasing k-tuples of indices 0..n-1.
IncreasingTuples(k, n) ==
    { t \in [1..k -> 0..(n - 1)] : \A i \in 1..(k - 1) : t[i] < t[i + 1] }

\* C18 (SpecOdometer): in a call of rank r >= 4 on N vertices the odometer
\* tests only strictly increasing (r-3)-tuples of indices 0..N-1, tests each
\* of them exactly once, never indexes outside the tuple or the vertex list,
\* and then leaves the loop.
C18_OdometerTuples ==
    /\ [](\A k \in 1..Len(tested) : tested[k] \in IncreasingTuples(rank - 3, Len(vertices)))
    /\ [](pc # "panic")
    /\ [](pc = "left" =>
            \A t \in IncreasingTuples(rank - 3, Len(vertices)) :
                Cardinality({ k \in 1..Len(tested) : tested[k] = t }) = 1)
    /\ <>(pc = "left")

\* The local index of vertex v of the hyperplane with vertex list hp_v.
LocalIndex(hp_v, v) == (CHOOSE i \in 1..Len(hp_v) : hp_v[i] = v) - 1

\* The row maps the set of the vertices hp_v onto itself.
FixesSet(row, hp_v) == { At(row, hp_v[i]) : i \in 1..Len(hp_v) } = Range(hp_v)

\* The rows of vm that map hp_v onto itself, each as a permutation of the
\* local indices, local index i standing for vertex hp_v[i].
StabilizerAsClaimed(vm, hp_v) ==
    LET rows == SelectSeq(vm, LAMBDA row : FixesSet(row, hp_v))
    IN  [ a \in 1..Len(rows) |->
            [ b \in 1..Len(hp_v) |-> LocalIndex(hp_v, At(rows[a], hp_v[b])) ] ]

\* What C19 says of the table passed for the hyperplane hp_v, stab being the
\* rows the code kept.
TableAsClaimed(vm, hp_v, stab) ==
    /\ stab # << >>
    /\ NewStabilizer(stab) = StabilizerAsClaimed(vm, hp_v)
    /\ NewStabilizer(stab)[1] = Identity(Len(hp_v))

\* The same of every hyperplane orbit hv of the call with context c, and of
\* the calls below it.
RECURSIVE TablesAsClaimed(_, _)
TablesAsClaimed(c, hv) ==
    \A i \in 1..Len(hv) :
        /\ TableAsClaimed(c.vm, At(hv[i], 0), StabilizerRows(c.vm, At(hv[i], 0), 1))
        /\ c.rank >= 4 =>
               TablesAsClaimed(SubCtx(c, At(hv[i], 0)),
                               SubdimHyperplanes(SubCtx(c, At(hv[i], 0))).hv)

\* C19 (Spec): for every hyperplane orbit with first vertex list hp_v,
\* in Concrete::faceting and in the calls below it, the table passed to the
\* recursive call is non-empty, its row 0 is the identity, and its rows are
\* exactly the rows of the current vertex map that map the set hp_v onto
\* itself, each written in the local indices in which i stands for hp_v[i].
C19_LocalStabilizer ==
    [][pc = "subfacet" /\ pc' # "subfacet" =>
          TablesAsClaimed(TopCtx, hyperplanes_vertices)]_vars

\* A call of rank 4 has faceted its hyperplanes, one of them under a table
\* of several rows of which some, not all, of the rows of the vertex map
\* remained, one of them not the identity of the local indices.
C19_ProperStabilizer ==
    /\ rank = 4
    /\ pc = "registry"
    /\ \E i \in 1..Len(hyperplanes_vertices) :
          \E stab \in { StabilizerRows(vertex_map, At(hyperplanes_vertices[i], 0), 1) } :
              /\ Len(stab) >= 2
              /\ Len(stab) < Len(vertex_map)
              /\ \E a \in 1..Len(stab) :
                     NewStabilizer(stab)[a] # Identity(Len(stab[1]))

\* The stacks of the facetings in the output.
EmittedStacks == { output[i].stack : i \in 1..Len(output) }

\* C20 (Spec): the step that follows a valid classification of a stack whose
\* assembled structure fails the dyadic check appends nothing to the output
\* and does not abort, and it leaves the search stack that the step leaves
\* after any valid stack: the top frame advanced when the budget is reached
\* or irc is clear, (h + 1, 0) pushed otherwise.
C20_DroppedSilently ==
    [][AcceptStep =>
          /\ pc' = "search"
          /\ facets' = AfterValid(evaluated')
          /\ IF irc /\ ~BudgetReached(noble, evaluated')
             THEN NextOrbitPushed ELSE TopAdvanced
          /\ evaluated' = Evaluated
          /\ \E dyadic \in { IsDyadic(Assemble(TopEnv, Evaluated)) } :
                 IF dyadic
                 THEN Len(output') = Len(output) + 1 /\ Last(output').stack = evaluated'
                 ELSE output' = output]_vars

\* A valid stack whose structure is not dyadic was dropped, and a stack
\* accepted after it was emitted.
C20_EmittedAfterDrop ==
    \E i, j \in 1..Len(accepted) :
        /\ i < j
        /\ ~IsDyadic(Assemble(TopEnv, accepted[i]))
        /\ accepted[i] \notin EmittedStacks
        /\ accepted[j] \in EmittedStacks

\* The hyperplane orbits of the frames increase strictly from bottom to top.
OrbitsIncrease(stack) ==
    \A i, j \in 1..Len(stack) : i < j => stack[i][1] < stack[j][1]

\* C21 (SpecPool): at every evaluation the hyperplane-orbit indices of the
\* frames increase strictly from bottom to top, so no evaluated stack (the
\* accepted ones are among them) holds two facet types of one hyperplane
\* orbit, none repeats a facet type, and no stack is deeper than the number
\* of hyperplane orbits.
C21_OrbitsStrictlyIncrease ==
    /\ [](pc = "search" => OrbitsIncrease(Evaluated))
    /\ [](/\ OrbitsIncrease(evaluated)
          /\ Len(evaluated) <= Len(possible_facets)
          /\ \A i, j \in 1..Len(evaluated) : i # j => evaluated[i] # evaluated[j])

\* A stack that skips a hyperplane orbit with two facet types between two
\* of its frames has been evaluated and classified valid.
C21_SkippedOrbit ==
    /\ pc = "search"
    /\ Len(possible_facets) = 3
    /\ Len(possible_facets[2]) = 2
    /\ valid = 0
    /\ Len(evaluated) = 2
    /\ evaluated[2][1] > evaluated[1][1] + 1

\* Stack b differs from stack a at a frame they both have, and is greater there.
LaterAtFrame(a, b) ==
    \E k \in 1..Len(a) :
        /\ k <= Len(b)
        /\ SubSeq(a, 1, k - 1) = SubSeq(b, 1, k - 1)
        /\ FrameLess(a[k], b[k])

\* C22 (Spec): every evaluated stack extends the stack evaluated before it
\* or is lexicographically later than it, so no stack is evaluated twice; no
\* stack is accepted twice and no two emitted facetings come from the same
\* stack, with irc set or clear, with or without a facet budget.
C22_NoStackTwice ==
    /\ [][evals' = evals + 1 =>
            /\ IsProperPrefix(evaluated, evaluated') \/ LaterAtFrame(evaluated, evaluated')
            /\ \A k \in 1..Len(accepted) :
                   /\ accepted[k] # evaluated'
                   /\ StackLess(accepted[k], evaluated')]_vars
    /\ [](\A i, j \in 1..Len(accepted) : i < j => StackLess(accepted[i], accepted[j]))
    /\ [](\A i, j \in 1..Len(output) : i < j => StackLess(output[i].stack, output[j].stack))

\* Under irc and a facet budget three stacks have been accepted, two
\* facetings emitted, and the stack evaluated last is shorter than an
\* accepted one: the search has backtracked.
C22_BacktrackedAfterAccepts ==
    /\ pc = "search"
    /\ irc
    /\ noble # None
    /\ Len(accepted) >= 3
    /\ Len(output) >= 2
    /\ \E k \in 1..Len(accepted) : Len(evaluated) < Len(accepted[k])

\* Every frame (h, f) of the stack names a candidate facet of the pool pf.
FramesInRange(pf, stack) ==
    \A k \in 1..Len(stack) :
        /\ stack[k][1] < Len(pf)
        /\ stack[k][2] < Len(At(pf, stack[k][1]))

\* Every key (a, b) attached to a returned faceting names an entry of the
\* returned orbit counts and of the returned ridge list a.
KeysInRange(facetings, counts, ridge_lists) ==
    /\ Len(counts) = Len(ridge_lists)
    /\ \A j \in 1..Len(facetings) :
          \A k \in 1..Len(facetings[j].types) :
              /\ facetings[j].types[k][1] < Len(counts)
              /\ facetings[j].types[k][2] < Len(At(ridge_lists, facetings[j].types[k][1]))

\* The same of what the calls made for the hyperplanes of one call
\* returned, f being the result of the loop that makes them.
ReturnsInRange(f) ==
    /\ ~f.panic
    /\ \A i \in 1..Len(f.pf) : KeysInRange(f.pf[i], f.ff_counts[i], f.ridges[i])

\* The calls the call with context c makes for its hyperplanes.
CallsBelow(c) == SubFacets(c, SubdimHyperplanes(c).hv, 1, NoFacets)

\* C23 (Spec): at every coverage evaluation each frame (h, f) of the stack
\* has h below the number of hyperplane orbits and f below the number of
\* candidate facets of orbit h; every key (a, b) attached to a faceting that
\* faceting_subdim returned, from the recursive case and from the rank-2
\* case below it, has a below the length of the returned counts and b below
\* the length of the returned ridge list a; and the registry gives every
\* such key a ridge orbit, so the lookups of the coverage loop are in range.
C23_IndicesInRange ==
    /\ pc = "search" =>
           /\ FramesInRange(possible_facets, evaluated)
           /\ FramesInRange(possible_facets, Evaluated)
           /\ \A h \in 1..Len(possible_facets) :
                  /\ Len(ridge_idx_orbits[h]) = Len(ridges[h])
                  /\ \A a \in 1..Len(ridges[h]) :
                         /\ Len(ridge_idx_orbits[h][a]) = Len(ridges[h][a])
                         /\ \A b \in 1..Len(ridges[h][a]) :
                                ridge_idx_orbits[h][a][b] < Len(ridge_counts)
    /\ pc \in { "registry", "search", "done" } =>
           /\ Len(f_counts) = Len(possible_facets) \/ pc = "registry"
           /\ \A h \in 1..Len(possible_facets) :
                  KeysInRange(possible_facets[h], ff_counts[h], ridges[h])
    /\ (pc = "registry" /\ rank = 4) =>
           \A i \in 1..Len(hyperplanes_vertices) :
               ReturnsInRange(CallsBelow(SubCtx(TopCtx, At(hyperplanes_vertices[i], 0))))

\* A call of rank 4 is searching: its candidate facets came back from the
\* recursive case, one of them with several keys, built on returns of the
\* rank-2 case, and a stack of two frames has been evaluated.
C23_KeysLookedUp ==
    /\ rank = 4
    /\ pc = "search"
    /\ Len(evaluated) = 2
    /\ \E h \in 1..Len(possible_facets) :
          /\ Len(possible_facets[h]) >= 2
          /\ \E j \in 1..Len(possible_facets[h]) : Len(possible_facets[h][j].types) >= 3
          /\ Len(ff_counts[h]) >= 2

=============================================================================
